---- MODULE Spec2Model ----
(***************************************************************************)
(* DynamicBitmapFont (src/scene/text-bitmap/DynamicBitmapFont.ts): the     *)
(* dynamic glyph atlas.  ensureCharacters filters the requested characters *)
(* to the new ones, shelf-packs their padded boxes into fixed-size pages,  *)
(* records one glyph record per character and then runs the kerning pass.  *)
(*                                                                         *)
(* Arithmetic.  The code works on JavaScript numbers; fontScale is the     *)
(* fraction baseRenderedFontSize / baseMeasurementFontSize.  Every length  *)
(* in texture pixels (currentX, currentY, maxCharHeight, padding,          *)
(* paddedWidth, paddedHeight, maxTextureWidth, ...) is held here as the    *)
(* exact integer numerator over baseMeasurementFontSize, so 31.2 px is     *)
(* 3120.  Measured widths and heights, the option padding, stroke width    *)
(* and shadow distance are integers in measurement units.                  *)
(***************************************************************************)
EXTENDS Integers, Sequences, FiniteSets, TLC

\* Longest input string of one ensureCharacters call.
MaxLen == 2

\* Size of the alphabet and longest request of the page-overflow scenario.
NumGlyphs == 5

\* AbstractBitmapFont.baseMeasurementFontSize / baseRenderedFontSize defaults.
baseMeasurementFontSize == 100
defaultBaseRenderedFontSize == 100
\* this._padding = dynamicOptions.padding ?? 4
defaultPadding == 4

VARIABLES
    options,          \* the DynamicBitmapFontOptions given to the constructor
    env,              \* the Glyph Metrics Provider: measured widths and heights
    font,             \* readonly fields set by the constructor
    pages,            \* this.pages
    currentChars,     \* this._currentChars
    currentX,         \* this._currentX
    currentY,         \* this._currentY
    currentPageIndex, \* this._currentPageIndex
    chars,            \* this.chars: character -> glyph record
    measureCache,     \* this._measureCache
    drawCount,        \* observer: number of _drawGlyph calls per character so far
    last              \* observer: what the most recent ensureCharacters call did

vars == <<options, env, font, pages, currentChars, currentX, currentY,
          currentPageIndex, chars, measureCache, drawCount, last>>

-----------------------------------------------------------------------------
(* Small helpers *)

D == baseMeasurementFontSize

Max(a, b) == IF a >= b THEN a ELSE b

\* Math.ceil on a pixel length held as a numerator over D (x >= 0).
Ceil(x) == ((x + D - 1) \div D) * D

\* a ?? b for an optional value held as <<>> (undefined) or <<v>>.
Coalesce(opt, default) == IF opt = <<>> THEN default ELSE opt[1]

Range(s) == {s[i] : i \in 1..Len(s)}

\* Array.prototype.includes
Includes(s, x) == \E i \in 1..Len(s) : s[i] = x

\* Array.prototype.indexOf (0-based, -1 when absent)
IndexOf(s, x) ==
    IF Includes(s, x)
    THEN (CHOOSE i \in 1..Len(s) : s[i] = x /\ \A j \in 1..(i - 1) : s[j] # x) - 1
    ELSE -1

\* char.codePointAt(0)
CodePoint(char) ==
    CASE char = "\t" -> 9
      [] char = "\n" -> 10
      [] char = "\r" -> 13
      [] char = " " -> 32
      [] char = "a" -> 97
      [] char = "b" -> 98
      [] char = "c" -> 99
      [] char = "d" -> 100
      [] char = "e" -> 101
      [] char = "f" -> 102
      [] OTHER -> 103

-----------------------------------------------------------------------------
(* Collaborators *)

\* resolveCharacters(chars): the string split into its characters.  A string
\* is held as the sequence of its characters.
resolveCharacters(input) == input

\* CanvasTextMetrics.measureTextWidth(text, 0, context), text of 1 or 2 chars
measureTextWidth(text) ==
    IF Len(text) = 1 THEN env.width[text[1]] ELSE env.pairWidth[text]

\* CanvasTextMetrics.measureText(char, style, canvas, false).height
measureTextHeight(char) == env.height[char]

\* CanvasPool.getOptimalCanvasAndContext(textureSize, textureSize, resolution):
\* a textureSize x textureSize surface at the device resolution.
getOptimalCanvasAndContext(size, resolution) ==
    [width |-> size * resolution, height |-> size * resolution]

\* The pool has no surface left once env.surfaces of them are held by the
\* font: the acquisition then throws.
PoolExhausted(held) == held >= env.surfaces

\* Cache.get(`${cleanFamily}-opentype`)?.font   (_getOpenTypeFont, lines 469-497)
getOpenTypeFont == env.outline.available

-----------------------------------------------------------------------------
(* constructor *)

\* style._stroke.width *= this.baseRenderedFontSize / requestedFontSize
ScaleStroke(stroke, requestedFontSize) ==
    IF stroke = <<>> THEN <<>>
    ELSE <<[width |-> (stroke[1].width * defaultBaseRenderedFontSize)
                          \div requestedFontSize]>>

Constructor(o) ==
    LET requestedFontSize == o.style.fontSize
        overrideSize == Coalesce(o.overrideSize, FALSE)
    IN  [style |-> [fontStyle  |-> o.style.fontStyle,
                    fill       |-> o.style.fill,
                    stroke     |-> IF overrideSize
                                   THEN ScaleStroke(o.style.stroke, requestedFontSize)
                                   ELSE o.style.stroke,
                    dropShadow |-> o.style.dropShadow,
                    fontSize   |-> IF overrideSize THEN baseMeasurementFontSize
                                   ELSE requestedFontSize],
         baseRenderedFontSize |-> IF overrideSize THEN defaultBaseRenderedFontSize
                                  ELSE requestedFontSize,
         textureSize |-> o.textureSize,
         skipKerning |-> Coalesce(o.skipKerning, FALSE),
         resolution  |-> Coalesce(o.resolution, 1),
         padding     |-> Coalesce(o.padding, defaultPadding)]

-----------------------------------------------------------------------------
(* ensureCharacters: filtering (lines 120-122) *)

\* variant: the filter on the membership set is missing
FilterKnown_Missing(list, known) == list

\* .filter((char) => !this._currentChars.includes(char))
FilterKnown(list, known) == SelectSeq(list, LAMBDA char : ~Includes(known, char))

\* variant: the filter on the first occurrence is missing
FilterFirst_Missing(self) == self

\* .filter((char, index, self) => self.indexOf(char) === index)
FilterFirst(self) ==
    LET F[i \in 0..Len(self)] ==
            IF i = 0 THEN <<>>
            ELSE IF IndexOf(self, self[i]) = i - 1
                 THEN Append(F[i - 1], self[i])
                 ELSE F[i - 1]
    IN  F[Len(self)]

CharList(input, known) == FilterFirst(FilterKnown(resolveCharacters(input), known))

-----------------------------------------------------------------------------
(* Observer records.  trace is the ordered list of the calls one            *)
(* ensureCharacters makes on its collaborators; steps holds, per loop       *)
(* iteration, the values of the packing locals around that iteration.       *)

Event(op, site, text, page, x, y) ==
    [op |-> op, site |-> site, text |-> text, page |-> page, x |-> x, y |-> y]

-----------------------------------------------------------------------------
(* _nextPage (lines 321-353).  s is the running state of one call: the      *)
(* instance fields it has written so far and its locals.                    *)

\* variant: the new page is put in front of the list
SetPage_Front(ps, index, pageData) == <<pageData>> \o ps

\* this.pages[index] = pageData, index 0-based
SetPage(ps, index, pageData) ==
    IF index = Len(ps) THEN Append(ps, pageData)
    ELSE [ps EXCEPT ![index + 1] = pageData]

\* _setupContext (lines 356-408): the drawing state of a new page's context.
\* transform and lineWidth are numerators over D; a context starts with line
\* width 1, join 'miter' and miter limit 10, which are also the join and the
\* miter limit of a TextStyle stroke.
setupContext ==
    [transform |-> font.resolution * D,
     lineWidth |-> IF font.style.stroke = <<>> THEN D
                   ELSE font.style.stroke[1].width * D,
     lineJoin |-> "miter",
     miterLimit |-> 10,
     saved |-> <<>>]

\* this._currentPageIndex++ comes first (line 323); an acquisition that
\* throws leaves the method there.
nextPage(s) ==
    LET index == s.currentPageIndex + 1
        canvas == getOptimalCanvasAndContext(font.textureSize, font.resolution)
        pageData == [canvas |-> canvas,
                     context |-> setupContext,
                     \* which of the pool's surfaces the canvas is
                     surface |-> Len(s.pages),
                     \* textureResolution * fontScale, numerator over D
                     resolution |-> font.resolution * font.baseRenderedFontSize]
        called == [s EXCEPT !.currentPageIndex = index,
                            !.trace = Append(s.trace,
                              Event("getOptimalCanvasAndContext", "nextPage", <<>>, index, 0, 0))]
    IN  IF PoolExhausted(Len(s.pages))
        THEN [called EXCEPT !.threw = "acquire"]
        ELSE [called EXCEPT !.pages = SetPage(s.pages, index, pageData)]

\* variant: the locals keep designating the page the loop was on
Rebind_Stale(s) == s

\* canvas, context and textureSource are taken from the new page data
\* (lines 203-205)
Rebind(s) == [s EXCEPT !.page = s.currentPageIndex]

\* variant: the texture source is not updated
Update_Skipped(s, site) == s

\* textureSource.update()   (lines 199 and 257)
Update(s, site) ==
    [s EXCEPT !.trace = Append(s.trace, Event("update", site, <<>>, s.page, 0, 0))]

-----------------------------------------------------------------------------
(* ensureCharacters: the packing loop body (lines 159-252) *)

\* variant: the tab is not among the empty characters
Visible_NoTab(char) == char # "\n" /\ char # "\r" /\ char # " "

\* char !== '\n' && char !== '\r' && char !== '\t' && char !== ' '
Visible(char) == char # "\n" /\ char # "\r" /\ char # "\t" /\ char # " "

\* variant: the padding is not scaled by fontScale
ScaledPadding_Unscaled == font.padding * D

\* padding = this._padding * fontScale
ScaledPadding == font.padding * font.baseRenderedFontSize

\* Math.ceil((style.fontStyle === 'italic' ? 2 : 1) * width), width = charWidth * fontScale
TextureGlyphWidth(charWidth) ==
    Ceil((IF font.style.fontStyle = "italic" THEN 2 ELSE 1)
            * (charWidth * font.baseRenderedFontSize))

PaddedWidth(char) == TextureGlyphWidth(measureTextWidth(<<char>>)) + (ScaledPadding * 2)

\* height = metrics.height * fontScale; paddedHeight = height + padding * 2
PaddedHeight(char) ==
    (measureTextHeight(char) * font.baseRenderedFontSize) + (ScaledPadding * 2)

\* maxCharHeight after lines 181-187
ShelfHeight(char, paddedHeight, maxCharHeight) ==
    IF Visible(char) THEN Ceil(Max(paddedHeight, maxCharHeight)) ELSE maxCharHeight

\* the test of line 189
NeedsNewShelf(x, paddedWidth, maxTextureWidth) == x + paddedWidth > maxTextureWidth

\* variant: the page test admits a shelf that ends past the page (>= for >
\* on the shelf's top edge)
NeedsNewPage_TopEdge(y, maxCharHeight, maxTextureHeight) == y >= maxTextureHeight

\* the test of line 197
NeedsNewPage(y, maxCharHeight, maxTextureHeight) == y + maxCharHeight > maxTextureHeight

\* variant: the advance is taken in texture space (scaled by fontScale)
XAdvance_Scaled(charWidth) ==
    ((charWidth * font.baseRenderedFontSize) \div D)
        - (IF font.style.dropShadow = <<>> THEN 0 ELSE font.style.dropShadow[1].distance)
        - (IF font.style.stroke = <<>> THEN 0 ELSE font.style.stroke[1].width)

\* xAdvance (lines 212-214)
XAdvance(charWidth) ==
    charWidth
        - (IF font.style.dropShadow = <<>> THEN 0 ELSE font.style.dropShadow[1].distance)
        - (IF font.style.stroke = <<>> THEN 0 ELSE font.style.stroke[1].width)

\* The Rectangle of lines 239-244.  px = textureSource.width * fontScale, so
\* (currentX / px) * textureSource.width = currentX / fontScale: the frame is
\* held as numerators over baseRenderedFontSize, which are the pixel
\* numerators over D.
Frame(x, y, paddedWidth, paddedHeight) ==
    [x |-> x, y |-> y, width |-> paddedWidth, height |-> paddedHeight]

\* lines 189-209: the cursor after the placement test
Shelf(s, char) ==
    LET paddedWidth == PaddedWidth(char)
        paddedHeight == PaddedHeight(char)
        h1 == ShelfHeight(char, paddedHeight, s.maxCharHeight)
    IN  IF NeedsNewShelf(s.currentX, paddedWidth, s.maxTextureWidth)
        THEN LET y1 == s.currentY + h1
                 w == [s EXCEPT !.currentY = y1, !.maxCharHeight = paddedHeight,
                                !.currentX = 0]
             IN  IF NeedsNewPage(y1, paddedHeight, s.maxTextureHeight)
                 THEN LET n == nextPage(Update(w, "loop"))
                      IN  IF n.threw # "none" THEN n
                          ELSE [Rebind(n) EXCEPT !.currentY = 0]
                 ELSE w
        ELSE [s EXCEPT !.maxCharHeight = h1]

-----------------------------------------------------------------------------
(* _drawGlyph and its two strategies (lines 410-652).  The calls on the     *)
(* page's context are logged with the page and the character; an outline    *)
(* operation of a character throws where env.outline.fails says so.         *)

Draw(s, op, char) ==
    [s EXCEPT !.trace = Append(s.trace, Event(op, "draw", <<char>>, s.page, 0, 0))]

\* the drawing state of the context the locals designate
Context(s) == s.pages[s.page + 1].context

SetContext(s, ctx) == [s EXCEPT !.pages[s.page + 1].context = ctx]

\* context.save(): the drawing state is pushed
Save(s, char) ==
    LET ctx == Context(s)
    IN  Draw(SetContext(s, [ctx EXCEPT !.saved =
                Append(ctx.saved, [transform |-> ctx.transform, lineWidth |-> ctx.lineWidth,
                                   lineJoin |-> ctx.lineJoin, miterLimit |-> ctx.miterLimit])]),
             "save", char)

\* variant: the drawing state is not restored
Restore_Missing(s, char) == s

\* context.restore(): the drawing state last pushed is popped, if there is one
Restore(s, char) ==
    LET ctx == Context(s)
        n == Len(ctx.saved)
    IN  Draw(IF n = 0 THEN s
             ELSE SetContext(s, [transform |-> ctx.saved[n].transform,
                                 lineWidth |-> ctx.saved[n].lineWidth,
                                 lineJoin |-> ctx.saved[n].lineJoin,
                                 miterLimit |-> ctx.saved[n].miterLimit,
                                 saved |-> SubSeq(ctx.saved, 1, n - 1)]),
             "restore", char)

\* context.scale(fontScale, fontScale)
Scale(s, char) ==
    LET ctx == Context(s)
    IN  Draw(SetContext(s, [ctx EXCEPT !.transform =
                                (ctx.transform * font.baseRenderedFontSize) \div D]),
             "scale", char)

\* lines 539-542: lineWidth = strokeThickness / fontScale, lineJoin =
\* stroke.join || 'round', miterLimit = stroke.miterLimit || 10
SetStroke(s) ==
    LET ctx == Context(s)
        strokeThickness == font.style.stroke[1].width * font.baseRenderedFontSize
    IN  SetContext(s, [ctx EXCEPT !.lineWidth =
                                    (strokeThickness * D) \div font.baseRenderedFontSize,
                                  !.lineJoin = "miter",
                                  !.miterLimit = 10])

\* style._stroke && strokeThickness > 0, strokeThickness = stroke.width * fontScale
Strokes ==
    font.style.stroke # <<>> /\ font.style.stroke[1].width * font.baseRenderedFontSize > 0

\* _drawGlyphWithCanvas (lines 634-652)
drawGlyphWithCanvas(s, char) ==
    LET a == IF Strokes THEN Draw(s, "strokeText", char) ELSE s
    IN  IF font.style.fill THEN Draw(a, "fillText", char) ELSE a

\* variant: the catch block restores the context and draws nothing
Catch_NoFallback(s, char) == Restore(s, char)

\* the catch block of lines 560-568
Catch(s, char) == drawGlyphWithCanvas(Restore(s, char), char)

\* openTypeFont.getPath(...) followed by _drawOpenTypePath (lines 533-545 and
\* 551-557); the result says whether an exception left the try block
OutlinePass(s, char, paint) ==
    IF env.outline.fails[char] = "getPath"
    THEN [state |-> Draw(s, "getPath", char), threw |-> TRUE]
    ELSE [state |-> Draw(IF paint = "stroke" THEN SetStroke(Draw(s, "getPath", char))
                         ELSE Draw(s, "getPath", char),
                         paint, char),
          threw |-> env.outline.fails[char] = paint]

\* _drawGlyphWithOpenType (lines 502-572)
drawGlyphWithOpenType(s, char) ==
    LET a == Scale(Save(s, char), char)
        b == IF Strokes THEN OutlinePass(a, char, "stroke")
             ELSE [state |-> a, threw |-> FALSE]
        c == IF b.threw THEN b
             ELSE IF font.style.fill THEN OutlinePass(b.state, char, "fill")
             ELSE b
    IN  IF c.threw THEN Catch(c.state, char)
        ELSE Restore(c.state, char)

\* _drawGlyph (lines 410-463), called with (currentX + padding, currentY + padding)
drawGlyph(s, char, x, y) ==
    LET a == [s EXCEPT !.trace = Append(s.trace, Event("drawGlyph", "loop", <<char>>, s.page, x, y))]
    IN  IF getOpenTypeFont THEN drawGlyphWithOpenType(a, char)
        ELSE drawGlyphWithCanvas(a, char)

\* lines 217-252: the glyph record, the draw and the cursor advance
Record(s, char) ==
    LET charWidth == measureTextWidth(<<char>>)
        paddedWidth == PaddedWidth(char)
        paddedHeight == PaddedHeight(char)
        base == [id |-> CodePoint(char),
                 xOffset |-> -font.padding,
                 yOffset |-> -font.padding,
                 xAdvance |-> XAdvance(charWidth),
                 kerning |-> << >>,
                 texture |-> <<>>]
    IN  IF Visible(char)
        THEN [drawGlyph(s, char, s.currentX + ScaledPadding, s.currentY + ScaledPadding)
              EXCEPT
                !.chars = (char :> [base EXCEPT !.texture =
                              <<[page |-> s.page,
                                 frame |-> Frame(s.currentX, s.currentY,
                                                 paddedWidth, paddedHeight)]>>])
                          @@ s.chars,
                !.currentX = s.currentX + Ceil(paddedWidth)]
        ELSE [s EXCEPT !.chars = (char :> base) @@ s.chars]

\* one iteration of the loop of line 157
PackChar(s, char) ==
    LET m == [s EXCEPT !.trace = s.trace
                  \o <<Event("measureTextWidth", "loop", <<char>>, s.page, 0, 0),
                       Event("measureText", "loop", <<char>>, s.page, 0, 0)>>]
        a == Shelf(m, char)
        r == Record(a, char)
    IN  IF a.threw # "none" THEN a
        ELSE [r EXCEPT !.steps = Append(s.steps,
                [char |-> char,
                 paddedWidth |-> PaddedWidth(char),
                 paddedHeight |-> PaddedHeight(char),
                 xBefore |-> s.currentX, yBefore |-> s.currentY,
                 heightBefore |-> s.maxCharHeight,
                 wrapped |-> NeedsNewShelf(s.currentX, PaddedWidth(char), s.maxTextureWidth),
                 pageBefore |-> s.page,
                 page |-> a.page, x |-> a.currentX, y |-> a.currentY,
                 heightAfter |-> a.maxCharHeight,
                 xAfter |-> r.currentX,
                 contextBefore |-> Context(a),
                 contextAfter |-> Context(r)])]

RECURSIVE PackLoop(_, _, _)
PackLoop(s, charList, i) ==
    IF i > Len(charList) \/ s.threw # "none" THEN s
    ELSE PackLoop(PackChar(s, charList[i]), charList, i + 1)

-----------------------------------------------------------------------------
(* _applyKerning (lines 279-319).  k is the running state of the pass.      *)

\* let c = measureCache[ch]; if (!c) c = measureCache[ch] = measureTextWidth(ch)
NeedsMeasure(cache, ch) == ch \notin DOMAIN cache \/ cache[ch] = 0

CachedWidth(k, ch) ==
    IF NeedsMeasure(k.measureCache, ch)
    THEN [k EXCEPT !.measureCache = (ch :> measureTextWidth(<<ch>>)) @@ k.measureCache,
                   !.trace = Append(k.trace,
                               Event("measureTextWidth", "kerning", <<ch>>, k.page, 0, 0))]
    ELSE k

\* if (amount) this.chars[owner].kerning[other] = amount
SetKerning(k, owner, other, amount) ==
    IF amount # 0
    THEN [k EXCEPT !.chars[owner].kerning = (other :> amount) @@ k.chars[owner].kerning,
                   !.kernWrites = Append(k.kernWrites,
                        [owner |-> owner, other |-> other,
                         old |-> IF other \in DOMAIN k.chars[owner].kerning
                                 THEN k.chars[owner].kerning[other] ELSE 0,
                         new |-> amount])]
    ELSE k

\* the body of the inner loop (lines 291-316)
KernPair(k, first, second) ==
    LET k1 == CachedWidth(k, first)
        c1 == k1.measureCache[first]
        k2 == CachedWidth(k1, second)
        c2 == k2.measureCache[second]
        \* first + second, measured for both entries (lines 301 and 310)
        t1 == <<first, second>>
        k3 == SetKerning([k2 EXCEPT !.trace = Append(k2.trace,
                              Event("measureTextWidth", "kerning", t1, k.page, 0, 0))],
                         first, second, measureTextWidth(t1) - (c1 + c2))
        t2 == <<first, second>>
    IN  SetKerning([k3 EXCEPT !.trace = Append(k3.trace,
                              Event("measureTextWidth", "kerning", t2, k.page, 0, 0))],
                   second, first, measureTextWidth(t2) - (c1 + c2))

RECURSIVE applyKerning(_, _, _, _, _)
applyKerning(k, newChars, known, i, j) ==
    IF i > Len(newChars) THEN k
    ELSE IF j > Len(known) THEN applyKerning(k, newChars, known, i + 1, 1)
    ELSE applyKerning(KernPair(k, newChars[i], known[j]), newChars, known, i, j + 1)

\* this._skipKerning && this._applyKerning(charList, context)   (line 263)
RunsKerning(skipKerning) == skipKerning

-----------------------------------------------------------------------------
(* ensureCharacters (lines 118-264) *)

\* maxTextureWidth = canvas.width / this.resolution   (lines 154-155)
MaxTextureWidth(canvas) == (canvas.width * D) \div font.resolution

MaxTextureHeight(canvas) == (canvas.height * D) \div font.resolution

\* the instance fields a call starts from
Fields ==
    [pages |-> pages, currentPageIndex |-> currentPageIndex,
     currentX |-> currentX, currentY |-> currentY,
     chars |-> chars, measureCache |-> measureCache]

\* the fields of a font on which ensureCharacters has not run
FreshFields ==
    [pages |-> <<>>, currentPageIndex |-> -1, currentX |-> 0, currentY |-> 0,
     chars |-> << >>, measureCache |-> << >>]

\* let maxCharHeight = 0   (line 151)
InitialShelfHeight == 0

\* variant: every call allocates a page before its loop
NeedsFirstPage_Always(index) == TRUE

\* if (this._currentPageIndex === -1)   (line 131)
NeedsFirstPage(index) == index = -1

\* lines 129-155: the active page and the locals before the loop.  Reading
\* canvasAndContext of a page the list does not hold is a TypeError (line 140).
BeginAt(f) ==
    LET s0 == [pages |-> f.pages, currentPageIndex |-> f.currentPageIndex,
               page |-> f.currentPageIndex,
               currentX |-> f.currentX, currentY |-> f.currentY,
               maxCharHeight |-> InitialShelfHeight,
               maxTextureWidth |-> 0, maxTextureHeight |-> 0,
               chars |-> f.chars, measureCache |-> f.measureCache,
               threw |-> "none",
               trace |-> <<>>, steps |-> <<>>, kernWrites |-> <<>>]
        s1 == IF NeedsFirstPage(f.currentPageIndex) THEN nextPage(s0) ELSE s0
        index == s1.currentPageIndex
    IN  IF s1.threw # "none" THEN s1
        ELSE IF index >= Len(s1.pages) THEN [s1 EXCEPT !.threw = "TypeError"]
        ELSE [s1 EXCEPT !.page = index,
                        !.maxTextureWidth = MaxTextureWidth(s1.pages[index + 1].canvas),
                        !.maxTextureHeight = MaxTextureHeight(s1.pages[index + 1].canvas)]

Begin == BeginAt(Fields)

\* lines 157-263: the loop, the final update and the kerning pass
Run(charList, known) ==
    LET p == PackLoop(Begin, charList, 1)
        u == Update(p, "end")
    IN  IF p.threw # "none" THEN p
        ELSE IF RunsKerning(font.skipKerning)
        THEN applyKerning(u, charList, known, 1, 1)
        ELSE u

Draws(trace, char) ==
    Cardinality({i \in 1..Len(trace) : trace[i].op = "drawGlyph" /\ trace[i].text = <<char>>})

\* the instance fields as the call leaves them
\* variant: the new characters replace the membership list
Membership_Replaced(known, charList) == charList

\* this._currentChars = [...this._currentChars, ...charList]   (line 127)
Membership(known, charList) == known \o charList

\* The instance fields as the call leaves them.  this._currentX and
\* this._currentY are written at the end only (lines 259-260); a call that
\* threw has not reached them.
Commit(input, charList, r) ==
    /\ currentChars' = Membership(currentChars, charList)
    /\ pages' = r.pages
    /\ currentPageIndex' = r.currentPageIndex
    /\ currentX' = IF r.threw # "none" THEN currentX ELSE r.currentX
    /\ currentY' = IF r.threw # "none" THEN currentY ELSE r.currentY
    /\ chars' = r.chars
    /\ measureCache' = r.measureCache
    /\ drawCount' = [c \in DOMAIN drawCount |-> drawCount[c] + Draws(r.trace, c)]
    /\ last' = [called |-> TRUE, input |-> input, charList |-> charList,
                threw |-> r.threw,
                trace |-> r.trace, steps |-> r.steps, kernWrites |-> r.kernWrites]
    /\ UNCHANGED <<options, env, font>>

\* if (!charList.length) return;   (line 125)
Filtered(input, charList) ==
    IF Len(charList) = 0
    THEN /\ last' = [called |-> TRUE, input |-> input, charList |-> charList,
                     threw |-> "none",
                     trace |-> <<>>, steps |-> <<>>, kernWrites |-> <<>>]
         /\ UNCHANGED <<options, env, font, pages, currentChars, currentX, currentY,
                        currentPageIndex, chars, measureCache, drawCount>>
    ELSE Commit(input, charList, Run(charList, Membership(currentChars, charList)))

ensureCharacters(input) == Filtered(input, CharList(input, currentChars))

-----------------------------------------------------------------------------
(* Fonts and metrics the model is run on *)

\* a TextStyle; its fill is the default one
Style(fontSize, fontStyle, stroke, dropShadow) ==
    [fontSize |-> fontSize, fontStyle |-> fontStyle,
     stroke |-> stroke, dropShadow |-> dropShadow, fill |-> TRUE]

PlainStyle(fontSize) == Style(fontSize, "normal", <<>>, <<>>)

Options(style, textureSize, padding, skipKerning, resolution, overrideSize) ==
    [style |-> style, textureSize |-> textureSize, padding |-> padding,
     skipKerning |-> skipKerning, resolution |-> resolution,
     overrideSize |-> overrideSize]

\* a 4 x 4 page, no padding, fontScale 1
SmallPage == Options(PlainStyle(100), 4, <<0>>, <<>>, <<>>, <<>>)

\* kerning deltas of the pairs of the first two characters of an alphabet
Kern(ab, ba) == [ab |-> ab, ba |-> ba]

Env(alphabet, widths, heights, kern) ==
    LET A == Range(alphabet)
        w == [c \in A |-> widths[IndexOf(alphabet, c) + 1]]
        delta(a, b) == IF a = alphabet[1] /\ b = alphabet[2] THEN kern.ab
                       ELSE IF a = alphabet[2] /\ b = alphabet[1] THEN kern.ba
                       ELSE 0
    IN  [alphabet |-> A,
         width |-> w,
         height |-> [c \in A |-> heights[IndexOf(alphabet, c) + 1]],
         pairWidth |-> [t \in A \X A |-> w[t[1]] + w[t[2]] + delta(t[1], t[2])],
         \* the pool never runs out (a call acquires at most one surface for
         \* the first page and one per character) and no outline source is
         \* registered
         surfaces |-> Cardinality(A) + 1,
         outline |-> [available |-> FALSE, fails |-> [c \in A |-> "none"]]]

\* the same metrics with a pool of n surfaces
WithSurfaces(e, n) == [e EXCEPT !.surfaces = n]

\* the same metrics with an outline source whose operations throw for the
\* characters of the alphabet as fails says
WithOutline(e, alphabet, fails) ==
    [e EXCEPT !.outline = [available |-> TRUE,
                           fails |-> [c \in e.alphabet |-> fails[IndexOf(alphabet, c) + 1]]]]

\* alphabets of three characters; the first two carry the kerning deltas
VisibleAlphabets == {<<"a", "b", "c">>, <<"a", "b", " ">>}

WhitespaceAlphabets == {<<"a", "\n", "b">>, <<"\t", "a", "\r">>}

\* glyphs of differing widths and heights on the small page
GeometryConfigs ==
    {[options |-> SmallPage, env |-> Env(al, w, h, Kern(0, 0))] :
        al \in VisibleAlphabets,
        w \in {1, 3} \X {1, 3} \X {1, 3},
        h \in {<<2, 2, 2>>, <<2, 2, 3>>, <<3, 2, 2>>, <<2, 3, 2>>}}

\* font sizes, padding, italic, stroke, drop shadow, resolution
StyleOptions ==
    {Options(PlainStyle(50), 4, <<1>>, <<>>, <<>>, <<>>),
     Options(PlainStyle(40), 4, <<1>>, <<FALSE>>, <<2>>, <<FALSE>>),
     Options(PlainStyle(200), 8, <<0>>, <<>>, <<>>, <<>>),
     Options(PlainStyle(50), 16, <<>>, <<>>, <<>>, <<TRUE>>),
     Options(Style(100, "italic", <<>>, <<>>), 6, <<1>>, <<>>, <<>>, <<>>),
     Options(Style(100, "normal", <<[width |-> 1]>>, <<>>), 6, <<1>>, <<>>, <<>>, <<>>),
     Options(Style(50, "normal", <<[width |-> 1]>>, <<>>), 6, <<1>>, <<>>, <<>>, <<>>),
     Options(Style(50, "normal", <<[width |-> 1]>>, <<>>), 6, <<1>>, <<>>, <<>>, <<TRUE>>),
     Options(Style(200, "normal", <<[width |-> 2]>>, <<[distance |-> 1]>>),
             8, <<0>>, <<>>, <<>>, <<TRUE>>),
     Options(Style(100, "normal", <<>>, <<[distance |-> 1]>>), 6, <<1>>, <<>>, <<>>, <<>>)}

StyleConfigs ==
    {[options |-> o, env |-> Env(al, <<3, 2, 3>>, <<3, 3, 2>>, Kern(0, 0))] :
        o \in StyleOptions, al \in WhitespaceAlphabets}

\* kerning on and off, pair widths that depend on the order of the pair
KerningConfigs ==
    {[options |-> Options(PlainStyle(100), 4, <<0>>, sk, <<>>, <<>>),
      env |-> Env(al, <<2, 2, 1>>, <<2, 2, 2>>, k)] :
        sk \in {<<>>, <<TRUE>>, <<FALSE>>},
        al \in {<<"a", "b", "c">>, <<"a", "\n", "b">>},
        k \in {Kern(0, 0), Kern(-1, -1), Kern(-1, -2), Kern(-1, 0), Kern(0, 1)}}

Configs == GeometryConfigs \cup StyleConfigs \cup KerningConfigs

\* the string of the de-duplication example, "aab a"
ExampleInput == <<"a", "a", "b", " ", "a">>

\* the strings ensureCharacters may be called with
Inputs ==
    UNION {[1..n -> env.alphabet] : n \in 0..MaxLen}
        \cup (IF Range(ExampleInput) \subseteq env.alphabet THEN {ExampleInput} ELSE {})

-----------------------------------------------------------------------------
(* The state machine *)

InitFont(cfg) ==
    /\ options = cfg.options
    /\ env = cfg.env
    /\ font = Constructor(cfg.options)
    /\ pages = <<>>
    /\ currentChars = <<>>
    /\ currentX = 0
    /\ currentY = 0
    /\ currentPageIndex = -1
    /\ chars = << >>
    /\ measureCache = << >>
    /\ drawCount = [c \in cfg.env.alphabet |-> 0]
    /\ last = [called |-> FALSE, input |-> <<>>, charList |-> <<>>,
               threw |-> "none",
               trace |-> <<>>, steps |-> <<>>, kernWrites |-> <<>>]

Init == \E cfg \in Configs : InitFont(cfg)

EnsureCharacters == \E input \in Inputs : ensureCharacters(input)

Next == EnsureCharacters

Spec == Init /\ [][Next]_vars

-----------------------------------------------------------------------------
(* The page-overflow scenario: a fresh font, NumGlyphs visible glyphs of one *)
(* integer padded size, requested in alphabetical order in one or more calls *)

GlyphNames == <<"a", "b", "c", "d", "e", "f", "g">>

OverflowAlphabet == SubSeq(GlyphNames, 1, NumGlyphs)

OverflowConfigs ==
    {[options |-> Options(PlainStyle(100), size, <<pad>>, <<>>, res, <<>>),
      env |-> Env(OverflowAlphabet,
                  [i \in 1..NumGlyphs |-> w], [i \in 1..NumGlyphs |-> h], Kern(0, 0))] :
        size \in {4, 5, 6}, pad \in {0, 1}, res \in {<<>>, <<2>>}, w \in {1, 2}, h \in {1, 2}}

InitOverflow == \E cfg \in OverflowConfigs : InitFont(cfg)

\* the next k glyphs of the alphabet
OverflowInputs ==
    {SubSeq(OverflowAlphabet, Len(currentChars) + 1, Len(currentChars) + k) :
        k \in 0..(NumGlyphs - Len(currentChars))}

EnsureNextGlyphs == \E input \in OverflowInputs : ensureCharacters(input)

NextOverflow == EnsureNextGlyphs

SpecOverflow == InitOverflow /\ [][NextOverflow]_vars

\* the common padded size of the glyphs, in pixels, and the page's capacity
GlyphWidth == PaddedWidth("a") \div D

GlyphHeight == PaddedHeight("a") \div D

PerShelf == font.textureSize \div GlyphWidth

ShelvesPerPage == font.textureSize \div GlyphHeight

\* C4. Overflow correctness: on a fresh font whose page fits exactly N glyphs
\* of one fixed integer padded size per shelf and exactly M shelves, requesting
\* N*M + 1 distinct visible glyphs, in one call or over consecutive calls,
\* gives exactly 2 pages, the first N*M glyphs on page 0 and the overflow glyph
\* at (0,0) on page 1.
C4_OverflowCorrectness ==
    LET N == PerShelf
        M == ShelvesPerPage
    IN  (N >= 1 /\ M >= 1)
        => /\ \A i \in 1..Len(currentChars) :
                 i <= N * M
                 => LET t == chars[currentChars[i]].texture[1]
                    IN  /\ t.page = 0
                        /\ t.frame.x = ((i - 1) % N) * GlyphWidth * D
                        /\ t.frame.y = ((i - 1) \div N) * GlyphHeight * D
           /\ (currentChars # <<>> /\ Len(currentChars) <= N * M) => Len(pages) = 1
           /\ Len(currentChars) = N * M + 1
                 => /\ Len(pages) = 2
                    /\ LET t == chars[currentChars[N * M + 1]].texture[1]
                       IN  t.page = 1 /\ t.frame.x = 0 /\ t.frame.y = 0

\* a 2 x 2 page holds four glyphs and the fifth, requested by a later call,
\* is on the second page
C4_Witness ==
    /\ PerShelf = 2 /\ ShelvesPerPage = 2
    /\ Len(currentChars) = 5
    /\ Len(last.charList) < 5
    /\ Len(pages) = 2

-----------------------------------------------------------------------------
(* Properties *)

Known == Range(currentChars)

Whitespace == {" ", "\t", "\n", "\r"}

HasTexture(c) == chars[c].texture # <<>>

\* the characters known before the most recent call
KnownBefore == Range(SubSeq(currentChars, 1, Len(currentChars) - Len(last.charList)))

\* the usable size of the page a glyph lies on
PageUsableWidth(c) == MaxTextureWidth(pages[chars[c].texture[1].page + 1].canvas)

PageUsableHeight(c) == MaxTextureHeight(pages[chars[c].texture[1].page + 1].canvas)

\* the events of the last call with the given operation and call site, in order
Calls(op, site) ==
    SelectSeq(last.trace, LAMBDA e : e.op = op /\ e.site = site)

Texts(events) == [i \in 1..Len(events) |-> events[i].text]

\* C1. Packing containment: every placed visible glyph whose padded width
\* does not exceed the usable page width has its padded box inside its page,
\* x + paddedWidth <= pageUsableWidth and y + paddedHeight <= pageUsableHeight.
C1_PackingContainment ==
    \A c \in DOMAIN chars :
        (HasTexture(c) /\ chars[c].texture[1].frame.width <= PageUsableWidth(c))
        => LET f == chars[c].texture[1].frame
           IN  /\ f.x + f.width <= PageUsableWidth(c)
               /\ f.y + f.height <= PageUsableHeight(c)

\* C2. Idempotence: a call whose characters are all in the membership set
\* adds no glyph record, does not move the cursor, allocates no page and
\* issues no measurement, rasterization or texture-update call.
C2_Idempotence ==
    [][(last'.called /\ Range(last'.input) \subseteq Known)
        => /\ chars' = chars
           /\ currentChars' = currentChars
           /\ currentX' = currentX
           /\ currentY' = currentY
           /\ pages' = pages
           /\ currentPageIndex' = currentPageIndex
           /\ drawCount' = drawCount
           /\ last'.trace = <<>>]_vars

\* a non-empty string of known characters was requested again
C2_Witness ==
    /\ last.called
    /\ last.input # <<>>
    /\ last.charList = <<>>
    /\ Range(last.input) \subseteq Known
    /\ pages # <<>>

\* C3. De-duplication: within one call each distinct not-yet-known character
\* is measured, placed and recorded exactly once, in order of first
\* occurrence, however often it occurs in the input; over any sequence of
\* calls no character is placed more than once.
C3_Deduplication ==
    LET list == last.charList
        visible == SelectSeq(list, LAMBDA c : c \notin Whitespace)
    IN  /\ Range(list) = Range(last.input) \ KnownBefore
        /\ \A i, j \in 1..Len(list) :
              i < j => /\ list[i] # list[j]
                       /\ IndexOf(last.input, list[i]) < IndexOf(last.input, list[j])
        /\ Texts(Calls("measureTextWidth", "loop")) = [i \in 1..Len(list) |-> <<list[i]>>]
        /\ Texts(Calls("measureText", "loop")) = [i \in 1..Len(list) |-> <<list[i]>>]
        /\ [i \in 1..Len(last.steps) |-> last.steps[i].char] = list
        /\ Texts(Calls("drawGlyph", "loop")) = [i \in 1..Len(visible) |-> <<visible[i]>>]
        /\ DOMAIN chars = Known
        /\ \A c \in env.alphabet :
              drawCount[c] = IF c \in Known /\ c \notin Whitespace THEN 1 ELSE 0

\* a call whose input repeats a new character
C3_Witness ==
    /\ \E i, j \in 1..Len(last.input) :
          i < j /\ last.input[i] = last.input[j] /\ last.input[i] \in Range(last.charList)
    /\ Len(last.charList) >= 2

\* C5. Whitespace exclusion (texture): the records of ' ', '\t', '\n', '\r'
\* never carry a texture, no rasterization call is ever issued for them and
\* they do not advance currentX; every visible character's record carries a
\* texture after the call that placed it.
C5_WhitespaceNoTexture ==
    /\ \A c \in DOMAIN chars :
          IF c \in Whitespace
          THEN ~HasTexture(c) /\ drawCount[c] = 0
          ELSE HasTexture(c)
    /\ \A i \in 1..Len(last.trace) :
          last.trace[i].op = "drawGlyph" => Range(last.trace[i].text) \cap Whitespace = {}
    /\ \A i \in 1..Len(last.steps) :
          last.steps[i].char \in Whitespace
          => /\ last.steps[i].xAfter = last.steps[i].x
             /\ last.steps[i].xAfter <= last.steps[i].xBefore

\* a call placed a whitespace character after a visible one
C5_Witness ==
    \E i, j \in 1..Len(last.steps) :
        /\ i < j
        /\ last.steps[i].char \notin Whitespace
        /\ last.steps[j].char \in Whitespace
        /\ last.steps[j].char \in DOMAIN chars
        /\ last.steps[j].xBefore > 0

\* C6. Whitespace exclusion (shelf height): processing a whitespace
\* character never increases the running shelf height maxCharHeight and never
\* contributes its padded height to a shelf, also when its padded width
\* triggers the shelf wrap.
C6_WhitespaceNoShelfHeight ==
    \A i \in 1..Len(last.steps) :
        last.steps[i].char \in Whitespace
        => last.steps[i].heightAfter <= last.steps[i].heightBefore

\* the stroke width and drop-shadow distance of the style given in the
\* options, 0 when not configured
ConfiguredStroke == IF options.style.stroke = <<>> THEN 0 ELSE options.style.stroke[1].width

ConfiguredShadow ==
    IF options.style.dropShadow = <<>> THEN 0 ELSE options.style.dropShadow[1].distance

\* C7 as claimed. Advance correctness: for every recorded character xAdvance
\* is its raw measured advance width minus the configured stroke width minus
\* the drop-shadow distance, whatever the requested display size.
C7_AdvanceConfigured ==
    \A c \in DOMAIN chars :
        chars[c].xAdvance = env.width[c] - ConfiguredStroke - ConfiguredShadow

\* the stroke width the font works with: with overrideSize the configured
\* width times baseRenderedFontSize / requested font size, else as configured
EffectiveStroke ==
    IF options.overrideSize = <<TRUE>>
    THEN (ConfiguredStroke * defaultBaseRenderedFontSize) \div options.style.fontSize
    ELSE ConfiguredStroke

\* C7 as amended. For every recorded character, visible or whitespace,
\* xAdvance is its raw measured advance width minus the font's effective
\* stroke width minus the drop-shadow distance, in measurement units: it
\* depends on neither fontScale nor the glyph's placement.
C7_AdvanceEffective ==
    \A c \in DOMAIN chars :
        chars[c].xAdvance = env.width[c] - EffectiveStroke - ConfiguredShadow

\* a visible and a whitespace character are recorded by a font that scales
\* its glyphs (fontScale # 1), and by one that rescaled its stroke
C7_Witness ==
    /\ \E c \in DOMAIN chars : c \in Whitespace
    /\ \E c \in DOMAIN chars : c \notin Whitespace /\ chars[c].texture[1].frame.y > 0
    /\ \/ font.baseRenderedFontSize # baseMeasurementFontSize
       \/ EffectiveStroke # ConfiguredStroke

\* the kerning pass ran in the most recent call
KerningRan == \E i \in 1..Len(last.trace) : last.trace[i].site = "kerning"

\* C8. Kerning gating: the kerning pass runs at the end of a call that added
\* characters exactly when kerning is enabled (skipKerning false or omitted);
\* with skipKerning true it never runs and every kerning map stays empty.
C8_KerningGating ==
    /\ (last.called /\ last.charList # <<>>)
          => (KerningRan <=> ~Coalesce(options.skipKerning, FALSE))
    /\ Coalesce(options.skipKerning, FALSE)
          => \A c \in DOMAIN chars : DOMAIN chars[c].kerning = {}

\* measuredWidth(a + b) - (measuredWidth(a) + measuredWidth(b))
KernDelta(a, b) == env.pairWidth[<<a, b>>] - (env.width[a] + env.width[b])

\* C9. Direction-correct kerning: after the kerning pass has run for a batch,
\* for every ordered pair (a, b) of known characters with one of them in the
\* batch, chars[a].kerning[b] is measuredWidth(a+b) - (measuredWidth(a) +
\* measuredWidth(b)) when that delta is non-zero, and absent when it is zero.
C9_KerningDirection ==
    KerningRan
    => \A a, b \in Known :
          (a \in Range(last.charList) \/ b \in Range(last.charList))
          => IF KernDelta(a, b) # 0
             THEN /\ b \in DOMAIN chars[a].kerning
                  /\ chars[a].kerning[b] = KernDelta(a, b)
             ELSE b \notin DOMAIN chars[a].kerning

\* C10. Kerning determinism: once chars[x].kerning[y] holds a non-zero value
\* no later kerning computation, in the same pass or in a later call,
\* overwrites it with a different value.
C10_KerningDeterminism ==
    \A i \in 1..Len(last.kernWrites) :
        last.kernWrites[i].old # 0 => last.kernWrites[i].new = last.kernWrites[i].old

IsPrefix(s, t) == Len(s) <= Len(t) /\ SubSeq(t, 1, Len(s)) = s

NoDuplicates(s) == \A i, j \in 1..Len(s) : i # j => s[i] # s[j]

\* C11. Membership is append-only: across every ensureCharacters call the
\* value of _currentChars before the call is a prefix of its value after,
\* the list never holds a character twice, and after the call it holds every
\* character of the call's input.
C11_MembershipAppendOnly ==
    [][/\ IsPrefix(currentChars, currentChars')
       /\ NoDuplicates(currentChars')
       /\ last'.called => Range(last'.input) \subseteq Range(currentChars')]_vars

\* a call whose input mixed known, repeated and new characters extended a
\* non-empty membership list
C11_Witness ==
    /\ last.charList # <<>>
    /\ Len(currentChars) > Len(last.charList)
    /\ Range(last.input) \cap KnownBefore # {}
    /\ Len(currentChars) >= 3

\* the fields of a glyph record that say what the glyph is and where it lies
Placement(g) ==
    [id |-> g.id, xOffset |-> g.xOffset, yOffset |-> g.yOffset,
     xAdvance |-> g.xAdvance, texture |-> g.texture]

\* C12. Append-only atlas: across every ensureCharacters call the page list
\* only grows at its end (the list before is a prefix of the list after) and
\* every character that had a glyph record keeps it with the same id,
\* xOffset, yOffset, xAdvance and texture (page and rectangle).
C12_AppendOnlyAtlas ==
    [][/\ IsPrefix(pages, pages')
       /\ \A c \in DOMAIN chars :
             /\ c \in DOMAIN chars'
             /\ Placement(chars'[c]) = Placement(chars[c])]_vars

\* a call on a font that already held a visible glyph allocated a further
\* page and placed a new glyph on it
C12_Witness ==
    /\ \E c \in KnownBefore : HasTexture(c)
    /\ \E c \in Range(last.charList) : HasTexture(c) /\ chars[c].texture[1].page >= 1
    /\ \E i \in 1..Len(last.trace) :
          last.trace[i].op = "getOptimalCanvasAndContext" /\ last.trace[i].page >= 1

-----------------------------------------------------------------------------
(* The exhausted-pool scenario: the pool hands out at most env.surfaces      *)
(* surfaces, so the first page or an overflow page cannot be acquired        *)

PoolConfigs ==
    {[options |-> SmallPage,
      env |-> WithSurfaces(Env(<<"a", "b", "c">>, w, h, Kern(0, 0)), n)] :
        n \in 0..2,
        w \in {<<3, 3, 3>>, <<1, 3, 3>>, <<3, 1, 3>>},
        h \in {<<2, 2, 2>>, <<3, 2, 2>>}}

InitPool == \E cfg \in PoolConfigs : InitFont(cfg)

SpecPool == InitPool /\ [][Next]_vars

\* C13. Resource exhaustion: when the surface acquisition inside nextPage
\* fails, no partial-page state is left: the current page index designates
\* an existing page, or is -1 with an empty page list, and so no later
\* ensureCharacters call fails for want of its active page.
C13_NoPartialPageState ==
    /\ \/ currentPageIndex = -1 /\ pages = <<>>
       \/ currentPageIndex \in 0..(Len(pages) - 1)
    /\ last.threw # "TypeError"

-----------------------------------------------------------------------------
(* The rasterizer scenario: an outline source is registered or not, and its  *)
(* operations throw for some characters, with and without a stroke           *)

OutlineFailures == {"none", "getPath", "stroke", "fill"}

DrawAlphabet == <<"a", "b", " ">>

DrawConfigs ==
    {[options |-> Options(Style(size, "normal", stroke, <<>>), 4, <<0>>, <<>>, <<>>, <<>>),
      env |-> e] :
        size \in {100, 50},
        stroke \in {<<>>, <<[width |-> 1]>>},
        e \in {Env(DrawAlphabet, <<2, 2, 1>>, <<2, 2, 2>>, Kern(0, 0))}
              \cup {WithOutline(Env(DrawAlphabet, <<2, 2, 1>>, <<2, 2, 2>>, Kern(0, 0)),
                                DrawAlphabet, <<fa, fb, "none">>) :
                        fa \in OutlineFailures, fb \in OutlineFailures}}

InitDraw == \E cfg \in DrawConfigs : InitFont(cfg)

SpecDraw == InitDraw /\ [][Next]_vars

\* the operations the most recent call made on a page context for a character
DrawOps(c) ==
    LET events == SelectSeq(last.trace, LAMBDA e : e.site = "draw" /\ e.text = <<c>>)
    IN  [i \in 1..Len(events) |-> events[i].op]

\* the font strokes its glyphs
HasStroke == options.style.stroke # <<>> /\ options.style.stroke[1].width > 0

\* an operation of the outline strategy throws for the character
OutlineThrows(c) ==
    \/ env.outline.fails[c] \in {"getPath", "fill"}
    \/ env.outline.fails[c] = "stroke" /\ HasStroke

\* the platform text draw of one glyph
PlatformTextDraw == IF HasStroke THEN <<"strokeText", "fillText">> ELSE <<"fillText">>

\* C14. Per-glyph rasterization failure: ensureCharacters does not throw
\* and records every character of the batch; without an outline source each
\* visible glyph is drawn by the platform text draw alone; with one, each
\* visible glyph first attempts the outline strategy, and a glyph whose
\* outline generation or drawing throws is then drawn by the platform text
\* draw, while the others are drawn by the outline strategy alone.
C14_RasterizationFallback ==
    /\ last.threw = "none"
    /\ [i \in 1..Len(last.steps) |-> last.steps[i].char] = last.charList
    /\ Range(last.charList) \subseteq DOMAIN chars
    /\ \A c \in Range(last.charList) \ Whitespace :
          LET ops == DrawOps(c)
              n == Len(ops)
              k == Len(PlatformTextDraw)
          IN  /\ HasTexture(c)
              /\ IF ~env.outline.available
                 THEN ops = PlatformTextDraw
                 ELSE /\ n >= 3
                      /\ SubSeq(ops, 1, 3) = <<"save", "scale", "getPath">>
                      /\ IF OutlineThrows(c)
                         THEN /\ n > k
                              /\ SubSeq(ops, n - k + 1, n) = PlatformTextDraw
                         ELSE /\ "strokeText" \notin Range(ops)
                              /\ "fillText" \notin Range(ops)
                              /\ "fill" \in Range(ops)

\* one call drew a glyph whose outline threw and, after it, a glyph whose
\* outline succeeded
C14_Witness ==
    /\ env.outline.available
    /\ Len(last.charList) >= 2
    /\ OutlineThrows(last.charList[1])
    /\ ~OutlineThrows(last.charList[2])
    /\ last.charList[2] \notin Whitespace
    /\ "fillText" \in Range(DrawOps(last.charList[1]))
    /\ "fill" \in Range(DrawOps(last.charList[2]))

-----------------------------------------------------------------------------
(* Glyph box arithmetic *)

\* the font of the worked example: requested size 40 against the
\* measurement size 100, default padding 4, a 64 x 64 page; "a" has advance
\* 70 and ink height 72
BoxOptions ==
    {Options(PlainStyle(40), 64, <<>>, <<>>, <<>>, <<>>),
     Options(Style(40, "italic", <<>>, <<>>), 64, <<2>>, <<>>, <<>>, <<>>),
     Options(PlainStyle(250), 64, <<1>>, <<>>, <<>>, <<>>)}

BoxConfigs ==
    {[options |-> o, env |-> Env(al, <<70, 7, 3>>, <<72, 9, 5>>, Kern(0, 0))] :
        o \in BoxOptions, al \in {<<"a", "b", " ">>}}

\* fontScale as a fraction over baseMeasurementFontSize: the requested font
\* size, unless overrideSize keeps the rendered size at its default
FontScaleNumerator ==
    IF options.overrideSize = <<TRUE>> THEN defaultBaseRenderedFontSize
    ELSE options.style.fontSize

\* the least whole number of pixels not below n / D, as a numerator over D
CeilPixels(n) == IF n % D = 0 THEN n ELSE (n - (n % D)) + D

InitBox == \E cfg \in BoxConfigs \cup StyleConfigs : InitFont(cfg)

SpecBox == InitBox /\ [][Next]_vars

\* C15. Glyph box arithmetic: for every character of a call,
\* textureGlyphWidth = ceil(unscaledWidth * fontScale * (2 if italic else 1)),
\* paddedWidth = textureGlyphWidth + 2 * padding * fontScale, paddedHeight =
\* inkHeight * fontScale + 2 * padding * fontScale, the rectangle of a visible
\* glyph has that size, and xOffset = yOffset = -padding with the unscaled
\* padding; at measurement size 100, requested size 40, padding 4, advance 70
\* and ink height 72 this is paddedWidth 31.2, paddedHeight 32, offsets -4
\* and xAdvance 70.
C15_GlyphBox ==
    LET padding == Coalesce(options.padding, defaultPadding)
        italic == IF options.style.fontStyle = "italic" THEN 2 ELSE 1
    IN  /\ \A i \in 1..Len(last.steps) :
              LET st == last.steps[i]
                  c == st.char
                  textureGlyphWidth == CeilPixels(env.width[c] * FontScaleNumerator * italic)
              IN  /\ st.paddedWidth = textureGlyphWidth + (2 * padding * FontScaleNumerator)
                  /\ st.paddedHeight = (env.height[c] * FontScaleNumerator)
                                          + (2 * padding * FontScaleNumerator)
                  /\ chars[c].xOffset = -padding
                  /\ chars[c].yOffset = -padding
                  /\ HasTexture(c)
                        => /\ chars[c].texture[1].frame.width = st.paddedWidth
                           /\ chars[c].texture[1].frame.height = st.paddedHeight
        /\ \A i \in 1..Len(last.steps) :
              (/\ last.steps[i].char = "a"
               /\ env.width["a"] = 70 /\ env.height["a"] = 72
               /\ options.style.fontSize = 40 /\ options.style.fontStyle = "normal"
               /\ options.padding = <<>> /\ options.overrideSize = <<>>
               /\ options.style.stroke = <<>> /\ options.style.dropShadow = <<>>)
              => /\ last.steps[i].paddedWidth = 3120
                 /\ last.steps[i].paddedHeight = 3200
                 /\ chars["a"].xOffset = -4 /\ chars["a"].yOffset = -4
                 /\ chars["a"].xAdvance = 70

\* the glyph of the worked example was placed, after another glyph
C15_Witness ==
    /\ options.style.fontSize = 40 /\ options.padding = <<>>
    /\ env.width["a"] = 70 /\ env.height["a"] = 72
    /\ \E i \in 1..Len(last.steps) : i > 1 /\ last.steps[i].char = "a"
    /\ HasTexture("a")
    /\ chars["a"].texture[1].frame.width = 3120

-----------------------------------------------------------------------------
(* Cursor resume and overlap *)

\* the packing of all known characters by a single call on a fresh font
SinglePass == PackLoop(BeginAt(FreshFields), currentChars, 1)

\* C16. Cursor resume: a call that resumes on an existing page continues
\* with the cursor the previous call left, shelf height included, so that the
\* characters requested over several calls have the placement (page, x, y)
\* that a single call with the concatenated string gives them.
C16_CursorResume ==
    \A c \in DOMAIN chars :
        HasTexture(c)
        => LET t == chars[c].texture[1]
               u == SinglePass.chars[c].texture[1]
           IN  t.page = u.page /\ t.frame.x = u.frame.x /\ t.frame.y = u.frame.y

\* the padded rectangles of two glyphs have a pixel in common
Overlap(f, g) ==
    /\ f.x < g.x + g.width /\ g.x < f.x + f.width
    /\ f.y < g.y + g.height /\ g.y < f.y + f.height

\* C17. Non-overlap: no two visible glyphs placed on the same page have
\* overlapping padded rectangles, whichever calls placed them.
C17_NonOverlap ==
    \A c1, c2 \in DOMAIN chars :
        (c1 # c2 /\ HasTexture(c1) /\ HasTexture(c2)
            /\ chars[c1].texture[1].page = chars[c2].texture[1].page)
        => ~Overlap(chars[c1].texture[1].frame, chars[c2].texture[1].frame)

-----------------------------------------------------------------------------
(* Pages: which one is drawn on, and when it is uploaded *)

\* the pages the font held when the most recent call began: those it holds
\* less the acquisitions of the call that succeeded
PagesBefore ==
    Len(pages) - Cardinality({i \in 1..Len(last.trace) :
                                 /\ last.trace[i].op = "getOptimalCanvasAndContext"
                                 /\ ~(i = Len(last.trace) /\ last.threw = "acquire")})

\* the index of the most recently allocated page just before event i of the
\* most recent call
NewestPage(i) ==
    PagesBefore - 1
        + Cardinality({j \in 1..(i - 1) : last.trace[j].op = "getOptimalCanvasAndContext"})

\* C18. Superseded pages are immutable: every rasterization call is issued
\* to the page most recently allocated at the moment of the call, so never to
\* a page that a newer one has superseded, and the texture of every glyph a
\* call places references the page the glyph was drawn into.
C18_DrawsOnNewestPage ==
    /\ \A i \in 1..Len(last.trace) :
          (last.trace[i].op = "drawGlyph" \/ last.trace[i].site = "draw")
          => last.trace[i].page = NewestPage(i)
    /\ \A i \in 1..Len(last.trace) :
          last.trace[i].op = "drawGlyph"
          => chars[last.trace[i].text[1]].texture[1].page = last.trace[i].page

\* a call that began on a page with glyphs on it drew on that page, then
\* allocated the next page and drew on it
C18_Witness ==
    /\ PagesBefore >= 1
    /\ \E c \in KnownBefore : HasTexture(c)
    /\ \E i, j, k \in 1..Len(last.trace) :
          /\ i < j /\ j < k
          /\ last.trace[i].op = "drawGlyph" /\ last.trace[i].page = PagesBefore - 1
          /\ last.trace[j].op = "getOptimalCanvasAndContext"
          /\ last.trace[k].op = "drawGlyph" /\ last.trace[k].page = PagesBefore

\* the events of the most recent call up to the end of packing
IsPacking(e) == e.site # "kerning"

\* C19. Page finalization: in a call that returns normally after adding
\* characters, the texture source of a page is updated when packing moves
\* off it, immediately before the next page is allocated, the active page is
\* updated once after the loop, and so every page drawn on during the call
\* has an update after its last draw.
C19_PageFinalization ==
    (last.called /\ last.charList # <<>> /\ last.threw = "none")
    => /\ \A i \in 1..Len(last.trace) :
             (last.trace[i].op = "getOptimalCanvasAndContext" /\ last.trace[i].page > 0)
             => /\ i > 1
                /\ last.trace[i - 1].op = "update"
                /\ last.trace[i - 1].page = last.trace[i].page - 1
       /\ Len(Calls("update", "end")) = 1
       /\ Calls("update", "end")[1].page = currentPageIndex
       /\ \A i \in 1..Len(last.trace) :
             last.trace[i].op = "update" /\ last.trace[i].site = "end"
             => \A j \in (i + 1)..Len(last.trace) : ~IsPacking(last.trace[j])
       /\ \A i \in 1..Len(last.trace) :
             last.trace[i].op = "drawGlyph"
             => \E j \in (i + 1)..Len(last.trace) :
                   last.trace[j].op = "update" /\ last.trace[j].page = last.trace[i].page

\* a call drew on one page, moved to the next and drew there too
C19_Witness ==
    /\ last.threw = "none"
    /\ \E i, j \in 1..Len(last.trace) :
          /\ i < j
          /\ last.trace[i].op = "drawGlyph"
          /\ last.trace[j].op = "drawGlyph"
          /\ last.trace[j].page = last.trace[i].page + 1

-----------------------------------------------------------------------------
(* The oversized-glyph scenario: "a" is wider than the page, and in some    *)
(* fonts taller too                                                         *)

OversizedConfigs ==
    {[options |-> SmallPage, env |-> Env(al, w, h, Kern(0, 0))] :
        al \in {<<"a", " ", "b">>, <<"a", "b", "c">>},
        w \in {<<5, 1, 1>>, <<5, 1, 3>>, <<5, 5, 1>>},
        h \in {<<1, 1, 1>>, <<2, 1, 1>>, <<1, 1, 2>>, <<5, 1, 1>>}}

InitOversized == \E cfg \in OversizedConfigs : InitFont(cfg)

SpecOversized == InitOversized /\ [][Next]_vars

\* the visible known characters in the order they were placed
Placed == SelectSeq(currentChars, LAMBDA c : c \notin Whitespace)

\* the padded box of the glyph is wider than the usable width of its page
Oversized(c) == chars[c].texture[1].frame.width > PageUsableWidth(c)

\* C20. Oversized glyph placement: a visible glyph whose paddedWidth exceeds
\* pageUsableWidth is placed at x = 0, never at a non-zero x, and the glyph
\* placed next, by the same or a later call, starts a new shelf: it is at
\* x = 0 on a later page, or lower on the same page.
C20_OversizedPlacement ==
    \A i \in 1..Len(Placed) :
        Oversized(Placed[i])
        => LET t == chars[Placed[i]].texture[1]
           IN  /\ t.frame.x = 0
               /\ i < Len(Placed)
                     => LET u == chars[Placed[i + 1]].texture[1]
                        IN  /\ u.frame.x = 0
                            /\ u.page > t.page \/ (u.page = t.page /\ u.frame.y > t.frame.y)

-----------------------------------------------------------------------------
(* The zero-width scenario: the kerning pass runs (skipKerning true, see     *)
(* line 263) and some characters measure 0 wide                              *)

ZeroWidthConfigs ==
    {[options |-> Options(PlainStyle(100), 4, <<0>>, <<TRUE>>, <<>>, <<>>),
      env |-> Env(al, w, <<2, 2, 2>>, k)] :
        al \in {<<"a", "b", "c">>, <<"a", " ", "b">>},
        w \in {<<0, 2, 1>>, <<2, 0, 1>>, <<0, 0, 2>>, <<2, 1, 1>>},
        k \in {Kern(0, 0), Kern(-1, 0)}}

InitZeroWidth == \E cfg \in ZeroWidthConfigs : InitFont(cfg)

SpecZeroWidth == InitZeroWidth /\ [][Next]_vars

\* how often the kerning pass of a call measured the character on its own
KernMeasures(trace, c) ==
    Cardinality({i \in 1..Len(trace) :
                    /\ trace[i].op = "measureTextWidth"
                    /\ trace[i].site = "kerning"
                    /\ trace[i].text = <<c>>})

\* C21. Kerning width memoization: the kerning pass measures the width of a
\* single character at most once over the lifetime of the font: a call
\* measures no character that the cache already holds and measures any other
\* character at most once, whatever its width, 0 included.
C21_KerningMemoization ==
    [][\A c \in env.alphabet :
          KernMeasures(last'.trace, c) <= (IF c \in DOMAIN measureCache THEN 0 ELSE 1)]_vars

-----------------------------------------------------------------------------
(* Drawing-context restoration and the number of draws per glyph *)

\* how often the operation occurs in a sequence of operations
Count(ops, op) == Cardinality({i \in 1..Len(ops) : ops[i] = op})

\* C22. Drawing-context restoration: every context.save() of an outline
\* draw is matched by exactly one context.restore(), when the outline draw
\* succeeds and when it fails, the restore precedes every platform text draw
\* of the fallback, and after each glyph draw the context's drawing state
\* (scale transform, lineWidth, lineJoin, miterLimit, saved states) is what
\* it was before that glyph.
C22_ContextRestored ==
    /\ \A c \in Range(last.charList) \ Whitespace :
          LET ops == DrawOps(c)
          IN  /\ Count(ops, "save") = (IF env.outline.available THEN 1 ELSE 0)
              /\ Count(ops, "restore") = Count(ops, "save")
              /\ \A i, j \in 1..Len(ops) :
                    (ops[i] = "restore" /\ ops[j] \in {"strokeText", "fillText"}) => i < j
              /\ \A i, j \in 1..Len(ops) :
                    (ops[i] = "save" /\ ops[j] = "restore") => i < j
    /\ \A i \in 1..Len(last.steps) :
          last.steps[i].contextAfter = last.steps[i].contextBefore

\* on a font that scales and strokes its glyphs, one call drew a glyph whose
\* outline threw after the stroke properties were set and a glyph whose
\* outline succeeded
C22_Witness ==
    /\ env.outline.available
    /\ HasStroke
    /\ font.baseRenderedFontSize # baseMeasurementFontSize
    /\ \E c \in Range(last.charList) :
          env.outline.fails[c] \in {"stroke", "fill"} /\ "fillText" \in Range(DrawOps(c))
    /\ \E c \in Range(last.charList) \ Whitespace :
          env.outline.fails[c] = "none" /\ "restore" \in Range(DrawOps(c))

\* C23. Records match membership: at every call boundary, after a normal
\* return and after a call that threw, the characters that have a glyph
\* record are exactly the characters of the membership list _currentChars.
C23_RecordsMatchMembership == DOMAIN chars = Range(currentChars)

\* how many operations of the kinds given completed on the page surface for
\* the character in the most recent call; an outline operation that throws
\* has not completed
Completed(c, outlineOp, textOp) ==
    (IF env.outline.fails[c] = outlineOp THEN 0 ELSE Count(DrawOps(c), outlineOp))
        + Count(DrawOps(c), textOp)

\* C24. Single draw per glyph: for each visible glyph at most one stroke
\* operation and at most one fill operation reach the page surface, the
\* stroke before the fill, whether the outline draw succeeds, no outline
\* source exists, or the outline draw fails at any point and the platform
\* text draw follows.
C24_SingleDrawPerGlyph ==
    \A c \in Range(last.charList) \ Whitespace :
        LET ops == DrawOps(c)
        IN  /\ Completed(c, "stroke", "strokeText") <= 1
            /\ Completed(c, "fill", "fillText") <= 1
            /\ \A i, j \in 1..Len(ops) :
                  (ops[i] \in {"stroke", "strokeText"} /\ ops[j] \in {"fill", "fillText"})
                  => i < j

-----------------------------------------------------------------------------
(* Termination and page bound *)

\* the pages the most recent call acquired, and those of them its loop acquired
Allocations == Len(Calls("getOptimalCanvasAndContext", "nextPage"))

LoopAllocations ==
    Cardinality({i \in 1..Len(last.steps) : last.steps[i].page # last.steps[i].pageBefore})

\* C25. Termination and page bound: every ensureCharacters call returns
\* after processing each new character exactly once, in order; it allocates
\* at most one page per processed character, and one more only when it is
\* the first call with new characters; a call with no new characters
\* allocates none.  This holds for glyphs wider or taller than a page too.
C25_PageBound ==
    /\ last.threw = "none"
    /\ [i \in 1..Len(last.steps) |-> last.steps[i].char] = last.charList
    /\ \A i \in 1..Len(last.steps) :
          last.steps[i].page - last.steps[i].pageBefore \in {0, 1}
    /\ Allocations - LoopAllocations
          = (IF last.charList # <<>> /\ KnownBefore = {} THEN 1 ELSE 0)
    /\ Allocations <= 1 + Len(last.charList)
    /\ last.charList = <<>> => Allocations = 0
    /\ Len(pages) <= (IF currentChars = <<>> THEN 0 ELSE 1) + Len(currentChars)

\* the first call placed two glyphs, one of them wider and taller than the
\* page, and allocated a page before the loop and one for each glyph
C25_Witness ==
    /\ Len(last.charList) >= 2
    /\ Allocations = 1 + Len(last.charList)
    /\ \E c \in Range(last.charList) :
          /\ HasTexture(c)
          /\ Oversized(c)
          /\ chars[c].texture[1].frame.height > PageUsableHeight(c)

====
